---- MODULE Spec2Model ----
(***************************************************************************)
(* A model of rnnoise.py, the RNNoise controller for PulseAudio: the four  *)
(* command-line actions (install, uninstall, enable, disable), the         *)
(* external commands each one runs, and the two pure computations they     *)
(* rely on (parsing `pacmd stat`, choosing the release asset).             *)
(*                                                                         *)
(* Text is modelled as sequences of one-character strings, so that         *)
(* str.startswith and str.split are computed and not assumed.              *)
(***************************************************************************)
EXTENDS Integers, Sequences, FiniteSets, TLC

VARIABLES
    pc,                  \* position of the running process
    action,              \* args.action
    monitor,             \* args.monitor
    dir_exists,          \* args.path.is_dir()
    plugin_exists,       \* (args.path/bin/ladspa/librnnoise_ladspa.so).is_file()
    loaded,              \* sound server: number of loaded instances per module type
    log,                 \* external calls made by the current run, in order
    step,                \* index into the command list being executed
    caller,              \* who called disable_rnnoise
    exc,                 \* the exception being propagated
    input_sink,          \* enable_rnnoise's local input_sink
    output_sink,         \* the local output_sink of the last sink query
    latest_release_json, \* the "assets" of the release listing
    download_url,        \* install's download_url
    exit_status,         \* the process's exit status, -1 while running
    error,               \* why the run ended the way it did
    start,               \* the environment when the current run started
    prev,                \* summary of the previous run
    runs,                \* number of runs started
    pacmd_stat,          \* stdout of `pacmd stat` given to get_default_sinks
    stat_lines,          \* the lines that stdout was made of
    sinks                \* what get_default_sinks returned

vars == <<pc, action, monitor, dir_exists, plugin_exists, loaded, log, step,
          caller, exc, input_sink, output_sink, latest_release_json,
          download_url, exit_status, error, start, prev, runs,
          pacmd_stat, stat_lines, sinks>>

(***************************************************************************)
(* Bounds                                                                  *)
(***************************************************************************)
MaxRuns == 2
MaxStatLines == 3
MaxAssets == 2

(***************************************************************************)
(* Text                                                                    *)
(***************************************************************************)
NL == "\n"
Sep == <<":", " ">>

\* str.startswith
startswith(s, p) == Len(s) >= Len(p) /\ SubSeq(s, 1, Len(p)) = p

\* str.find(sep, i), 1-based, 0 when absent
RECURSIVE find(_, _, _)
find(s, sep, i) ==
    IF i + Len(sep) - 1 > Len(s) THEN 0
    ELSE IF SubSeq(s, i, i + Len(sep) - 1) = sep THEN i
    ELSE find(s, sep, i + 1)

\* str.split(sep)
RECURSIVE split(_, _)
split(s, sep) ==
    LET k == find(s, sep, 1) IN
    IF k = 0 THEN <<s>>
    ELSE <<SubSeq(s, 1, k - 1)>> \o split(SubSeq(s, k + Len(sep), Len(s)), sep)

\* "\n".join(lines)
RECURSIVE join(_)
join(lines) ==
    IF lines = <<>> THEN <<>>
    ELSE IF Len(lines) = 1 THEN lines[1]
    ELSE lines[1] \o <<NL>> \o join(Tail(lines))

SeqsUpTo(S, n) == UNION {[1..k -> S] : k \in 0..n}

(***************************************************************************)
(* get_default_sinks                                                       *)
(***************************************************************************)
SourcePrefix == <<"D","e","f","a","u","l","t"," ","s","o","u","r","c","e"," ","n","a","m","e",":"," ">>
SinkPrefix == <<"D","e","f","a","u","l","t"," ","s","i","n","k"," ","n","a","m","e",":"," ">>

Unbound == [bound |-> FALSE, val |-> <<>>]
Bound(v) == [bound |-> TRUE, val |-> v]

\* a loop that stops at the first line carrying each prefix
RECURSIVE ScanLinesFirstMatch(_, _, _)
ScanLinesFirstMatch(lines, in, out) ==
    IF lines = <<>> THEN [input_sink |-> in, output_sink |-> out]
    ELSE LET line == Head(lines) IN
         ScanLinesFirstMatch(Tail(lines),
             IF startswith(line, SourcePrefix) /\ ~in.bound
                 THEN Bound(split(line, Sep)[2]) ELSE in,
             IF startswith(line, SinkPrefix) /\ ~out.bound
                 THEN Bound(split(line, Sep)[2]) ELSE out)

\* the for loop of get_default_sinks: every matching line assigns
RECURSIVE ScanLines(_, _, _)
ScanLines(lines, in, out) ==
    IF lines = <<>> THEN [input_sink |-> in, output_sink |-> out]
    ELSE LET line == Head(lines) IN
         ScanLines(Tail(lines),
             IF startswith(line, SourcePrefix)
                 THEN Bound(split(line, Sep)[2]) ELSE in,
             IF startswith(line, SinkPrefix)
                 THEN Bound(split(line, Sep)[2]) ELSE out)

\* the return statement raises UnboundLocalError when a name was never assigned
get_default_sinks(stdout) ==
    LET r == ScanLines(split(stdout, <<NL>>), Unbound, Unbound) IN
    IF r.input_sink.bound /\ r.output_sink.bound
    THEN [raised |-> FALSE, input_sink |-> r.input_sink.val,
          output_sink |-> r.output_sink.val]
    ELSE [raised |-> TRUE, input_sink |-> <<>>, output_sink |-> <<>>]

NoSinks == [raised |-> FALSE, input_sink |-> <<>>, output_sink |-> <<>>]

\* lines `pacmd stat` may print
StatLines == {
    <<"D","e","f","a","u","l","t"," ","s","o","u","r","c","e"," ","n","a","m","e",":"," ","m","i","c">>,
    <<"D","e","f","a","u","l","t"," ","s","o","u","r","c","e"," ","n","a","m","e",":"," ","u","s","b">>,
    <<"D","e","f","a","u","l","t"," ","s","i","n","k"," ","n","a","m","e",":"," ","h","d",":"," ","2">>,
    <<"D","e","f","a","u","l","t"," ","s","i","n","k"," ","n","a","m","e">>,
    <<" ","D","e","f","a","u","l","t"," ","s","o","u","r","c","e"," ","n","a","m","e",":"," ","m","i","c">> }

StatOutputs == SeqsUpTo(StatLines, MaxStatLines)

\* every result the sink query can give
SinkResults == {get_default_sinks(join(ls)) : ls \in StatOutputs}

(***************************************************************************)
(* The release listing and the choice of the asset                         *)
(***************************************************************************)
Linux == <<"l","i","n","u","x">>

Asset(name, url) == [name |-> name, browser_download_url |-> url]

Assets == {
    Asset(<<"l","i","n","u","x","-","x","6","4">>, <<"u","/","1">>),
    Asset(<<"l","i","n","u","x">>, <<"u","/","2">>),
    Asset(<<"l","i","n","u">>, <<"u","/","3">>),
    Asset(<<"a","-","l","i","n","u","x">>, <<"u","/","4">>) }

Listings == SeqsUpTo(Assets, MaxAssets)

\* the asset's name only has to contain the platform name
RECURSIVE ResolveContains(_, _)
ResolveContains(assets, url) ==
    IF assets = <<>> THEN url
    ELSE ResolveContains(Tail(assets),
             IF find(Head(assets).name, Linux, 1) # 0
             THEN Bound(Head(assets).browser_download_url) ELSE url)

\* the for loop over latest_release_json["assets"]; download_url starts as None
RECURSIVE Resolve(_, _)
Resolve(assets, url) ==
    IF assets = <<>> THEN url
    ELSE Resolve(Tail(assets),
             IF startswith(Head(assets).name, Linux)
             THEN Bound(Head(assets).browser_download_url) ELSE url)

(***************************************************************************)
(* External commands                                                       *)
(***************************************************************************)
PACMD == "/usr/bin/pacmd"
PACTL == "/usr/bin/pactl"

ModuleTypes == {"module-null-sink", "module-ladspa-sink", "module-loopback",
                "module-remap-source"}

\* an argument vector: tool, subcommand, its object, the remaining arguments;
\* dyn is the text interpolated into the argument written with braces
Cmd(tool, verb, name, args, dyn) ==
    [tool |-> tool, verb |-> verb, name |-> name, args |-> args, dyn |-> dyn]

StatCommand == Cmd(PACMD, "stat", "", <<>>, <<>>)

\* enable_rnnoise's list with the LADSPA sink created before its master
EnableCommandsLadspaFirst(in) == <<
    Cmd(PACMD, "load-module", "module-ladspa-sink",
        <<"sink_name=mic_raw_in", "sink_master=mic_denoised_out",
          "label=noise_suppressor_mono", "plugin={ladspa_file}", "control=95">>,
        <<>>),
    Cmd(PACMD, "load-module", "module-null-sink",
        <<"sink_name=mic_denoised_out", "rate=48000">>, <<>>),
    Cmd(PACMD, "load-module", "module-loopback",
        <<"source={input_sink}", "sink=mic_raw_in", "channels=1">>, in),
    Cmd(PACMD, "load-module", "module-remap-source",
        <<"source_name=denoised", "master=mic_denoised_out.monitor",
          "channels=1">>, <<>>),
    Cmd(PACMD, "set-default-source", "denoised", <<>>, <<>>) >>

\* enable_rnnoise's list `commands`
EnableCommands(in) == <<
    Cmd(PACMD, "load-module", "module-null-sink",
        <<"sink_name=mic_denoised_out", "rate=48000">>, <<>>),
    Cmd(PACMD, "load-module", "module-ladspa-sink",
        <<"sink_name=mic_raw_in", "sink_master=mic_denoised_out",
          "label=noise_suppressor_mono", "plugin={ladspa_file}", "control=95">>,
        <<>>),
    Cmd(PACMD, "load-module", "module-loopback",
        <<"source={input_sink}", "sink=mic_raw_in", "channels=1">>, in),
    Cmd(PACMD, "load-module", "module-remap-source",
        <<"source_name=denoised", "master=mic_denoised_out.monitor",
          "channels=1">>, <<>>),
    Cmd(PACMD, "set-default-source", "denoised", <<>>, <<>>) >>

\* disable_rnnoise's list `commands`
DisableCommands == <<
    Cmd(PACTL, "unload-module", "module-loopback", <<>>, <<>>),
    Cmd(PACTL, "unload-module", "module-null-sink", <<>>, <<>>),
    Cmd(PACTL, "unload-module", "module-ladspa-sink", <<>>, <<>>),
    Cmd(PACTL, "unload-module", "module-remap-source", <<>>, <<>>) >>

\* enable_monitoring's `command`
MonitorCommand(out) ==
    Cmd(PACMD, "load-module", "module-loopback",
        <<"latency_msec=1", "source=denoised", "sink={output_sink}">>, out)

\* calls that are not sound-server commands
RmtreeCall == Cmd("shutil", "rmtree", "{args.path}", <<>>, <<>>)
DownloadCall(url) == Cmd("download", "get", "{url}", <<"save_as=/tmp/rnnoise.tar.gz">>, url)
ExtractCall == Cmd("tarfile", "extractall", "{args.path}", <<>>, <<>>)
PrintExcCall == Cmd("traceback", "print_exc", "", <<>>, <<>>)

\* one entry of the run's record: who made the call, the call, its return code
Entry(by, cmd, rc) == [by |-> by, cmd |-> cmd, rc |-> rc]

ReturnCodes == {0, 1}

\* subprocess.run(command, check=check): CalledProcessError on a nonzero status
Raises(check, rc) == check /\ rc # 0

\* the check= argument of the three subprocess.run calls that run a command list
EnableCheckLax == FALSE
EnableCheck == TRUE
DisableCheckStrict == TRUE
DisableCheck == FALSE
MonitorCheckStrict == TRUE
MonitorCheck == FALSE

\* `except subprocess.CalledProcessError` in place of `except Exception`
CatchesCalledProcessError(e) == e = "CalledProcessError"
\* `except Exception` catches every error but SystemExit
Catches(e) == e \in {"CalledProcessError", "UnboundLocalError"}

\* the sound server's module table after a command returned rc
ServerApply(l, cmd, rc) ==
    IF rc # 0 THEN l
    ELSE IF cmd.verb = "load-module" THEN [l EXCEPT ![cmd.name] = @ + 1]
    ELSE IF cmd.verb = "unload-module" THEN [l EXCEPT ![cmd.name] = 0]
    ELSE l

(***************************************************************************)
(* The process                                                             *)
(***************************************************************************)
Actions == {"install", "uninstall", "enable", "disable"}

NoRun == [action |-> "none", exit_status |-> -1, error |-> "none",
          dir_at_start |-> FALSE]

Snapshot == [dir_exists |-> dir_exists, plugin_exists |-> plugin_exists,
             loaded |-> loaded]

sinkvars == <<pacmd_stat, stat_lines, sinks>>
argvars == <<action, monitor>>
histvars == <<start, prev, runs>>
fsvars == <<dir_exists, plugin_exists>>
installvars == <<latest_release_json, download_url>>
enablevars == <<input_sink, output_sink>>

Init ==
    /\ pc = "idle"
    /\ action = "none"
    /\ monitor = FALSE
    /\ dir_exists \in BOOLEAN
    /\ plugin_exists \in BOOLEAN
    /\ plugin_exists => dir_exists
    /\ loaded = [m \in ModuleTypes |-> 0]
    /\ log = <<>>
    /\ step = 0
    /\ caller = "none"
    /\ exc = "none"
    /\ input_sink = <<>>
    /\ output_sink = <<>>
    /\ latest_release_json = <<>>
    /\ download_url = Unbound
    /\ exit_status = -1
    /\ error = "none"
    /\ start = [dir_exists |-> dir_exists, plugin_exists |-> plugin_exists,
                loaded |-> loaded]
    /\ prev = NoRun
    /\ runs = 0
    /\ pacmd_stat = <<>>
    /\ stat_lines = <<>>
    /\ sinks = NoSinks

\* the process ends with the given status
Exit(code) == pc' = "done" /\ exit_status' = code

\* parse_arguments and the dispatch on args.action: a new process starts
Start ==
    /\ pc \in {"idle", "done"}
    /\ runs < MaxRuns
    /\ \E a \in Actions, m \in BOOLEAN :
          /\ action' = a
          /\ monitor' = m
          /\ pc' = a
    /\ prev' = IF pc = "done"
               THEN [action |-> action, exit_status |-> exit_status,
                     error |-> error, dir_at_start |-> start.dir_exists]
               ELSE prev
    /\ runs' = runs + 1
    /\ start' = Snapshot
    /\ log' = <<>>
    /\ step' = 0
    /\ caller' = "none"
    /\ exc' = "none"
    /\ input_sink' = <<>>
    /\ output_sink' = <<>>
    /\ latest_release_json' = <<>>
    /\ download_url' = Unbound
    /\ exit_status' = -1
    /\ error' = "none"
    /\ UNCHANGED <<fsvars, loaded, sinkvars>>

(***************************************************************************)
(* install                                                                 *)
(***************************************************************************)
\* shutil.rmtree(args.path) leaving the directory in place
RmtreeKeeps(d) == d
\* shutil.rmtree(args.path): whether the directory exists afterwards
Rmtree(d) == FALSE

InstallDelete ==
    /\ pc = "install"
    /\ IF dir_exists
       THEN /\ log' = Append(log, Entry("install", RmtreeCall, 0))
            /\ dir_exists' = Rmtree(dir_exists)
            /\ plugin_exists' = (plugin_exists /\ dir_exists')
       ELSE UNCHANGED <<log, fsvars>>
    /\ pc' = "install_resolve"
    /\ UNCHANGED <<argvars, loaded, step, caller, exc, enablevars, installvars,
                   exit_status, error, histvars, sinkvars>>

InstallResolve ==
    /\ pc = "install_resolve"
    /\ \/ \* requests.get, .json() or ["assets"] raises: uncaught
          /\ error' = "RequestError"
          /\ Exit(1)
          /\ UNCHANGED installvars
       \/ \E listing \in Listings :
             /\ latest_release_json' = listing
             /\ download_url' = Resolve(listing, Unbound)
             /\ IF ~download_url'.bound
                THEN error' = "ResolutionError" /\ Exit(1)
                ELSE pc' = "install_download" /\ UNCHANGED <<error, exit_status>>
    /\ UNCHANGED <<argvars, fsvars, loaded, log, step, caller, exc, enablevars,
                   histvars, sinkvars>>

InstallDownload ==
    /\ pc = "install_download"
    /\ \/ \* download() raises: uncaught
          /\ log' = Append(log, Entry("install", DownloadCall(download_url.val), 1))
          /\ error' = "DownloadError"
          /\ Exit(1)
       \/ /\ log' = Append(log, Entry("install", DownloadCall(download_url.val), 0))
          /\ pc' = "install_extract"
          /\ UNCHANGED <<error, exit_status>>
    /\ UNCHANGED <<argvars, fsvars, loaded, step, caller, exc, enablevars,
                   installvars, histvars, sinkvars>>

\* what was downloaded
Archives == {"malformed", "truncated", "empty", "no_plugin", "with_plugin"}

InstallExtract ==
    /\ pc = "install_extract"
    /\ \E archive \in Archives :
          CASE archive = "malformed" ->
                 \* tarfile.open raises: uncaught
                 /\ error' = "ExtractionError"
                 /\ Exit(1)
                 /\ UNCHANGED <<log, fsvars>>
            [] archive = "truncated" ->
                 \* extractall raises after writing some members: uncaught
                 /\ log' = Append(log, Entry("install", ExtractCall, 1))
                 /\ dir_exists' = TRUE
                 /\ plugin_exists' \in BOOLEAN
                 /\ error' = "ExtractionError"
                 /\ Exit(1)
            [] archive = "empty" ->
                 /\ log' = Append(log, Entry("install", ExtractCall, 0))
                 /\ UNCHANGED <<fsvars, error>>
                 /\ Exit(0)
            [] OTHER ->
                 /\ log' = Append(log, Entry("install", ExtractCall, 0))
                 /\ dir_exists' = TRUE
                 /\ plugin_exists' = (archive = "with_plugin")
                 /\ UNCHANGED error
                 /\ Exit(0)
    /\ UNCHANGED <<argvars, loaded, step, caller, exc, enablevars, installvars,
                   histvars, sinkvars>>

(***************************************************************************)
(* uninstall                                                               *)
(***************************************************************************)
Uninstall ==
    /\ pc = "uninstall"
    /\ IF dir_exists
       THEN /\ pc' = "disable_cmd"
            /\ caller' = "uninstall"
            /\ step' = 1
            /\ UNCHANGED <<error, exit_status>>
       ELSE /\ error' = "NotInstalledError"
            /\ Exit(1)
            /\ UNCHANGED <<caller, step>>
    /\ UNCHANGED <<argvars, fsvars, loaded, log, exc, enablevars, installvars,
                   histvars, sinkvars>>

UninstallRmtree ==
    /\ pc = "uninstall_rmtree"
    /\ log' = Append(log, Entry("uninstall", RmtreeCall, 0))
    /\ dir_exists' = Rmtree(dir_exists)
    /\ plugin_exists' = (plugin_exists /\ dir_exists')
    /\ Exit(0)
    /\ UNCHANGED <<argvars, loaded, step, caller, exc, enablevars, installvars,
                   error, histvars, sinkvars>>

(***************************************************************************)
(* disable_rnnoise                                                         *)
(***************************************************************************)
Disable ==
    /\ pc = "disable"
    /\ pc' = "disable_cmd"
    /\ caller' = "disable"
    /\ step' = 1
    /\ UNCHANGED <<argvars, fsvars, loaded, log, exc, enablevars, installvars,
                   exit_status, error, histvars, sinkvars>>

\* one iteration of disable_rnnoise's loop, and the return to the caller
DisableCmd ==
    /\ pc = "disable_cmd"
    /\ \E rc \in ReturnCodes :
          LET cmd == DisableCommands[step] IN
          /\ log' = Append(log, Entry("disable_rnnoise", cmd, rc))
          /\ loaded' = ServerApply(loaded, cmd, rc)
          /\ IF Raises(DisableCheck, rc)
             THEN /\ error' = "CalledProcessError"
                  /\ Exit(1)
                  /\ UNCHANGED step
             ELSE IF step < Len(DisableCommands)
             THEN /\ step' = step + 1
                  /\ UNCHANGED <<pc, exit_status, error>>
             ELSE IF caller = "uninstall"
             THEN /\ pc' = "uninstall_rmtree"
                  /\ UNCHANGED <<step, exit_status, error>>
             ELSE IF caller = "except"
             THEN /\ pc' = "print_exc"
                  /\ UNCHANGED <<step, exit_status, error>>
             ELSE /\ Exit(0)
                  /\ UNCHANGED <<step, error>>
    /\ UNCHANGED <<argvars, fsvars, caller, exc, enablevars, installvars,
                   histvars, sinkvars>>

(***************************************************************************)
(* enable                                                                  *)
(***************************************************************************)
\* enable_rnnoise up to its command loop: the sink query, then the file check
EnableBegin ==
    /\ pc = "enable"
    /\ \E r \in SinkResults :
          /\ log' = Append(log, Entry("get_default_sinks", StatCommand, 0))
          /\ IF r.raised
             THEN /\ pc' = "raise"
                  /\ exc' = "UnboundLocalError"
                  /\ error' = "UnboundLocalError"
                  /\ UNCHANGED <<enablevars, step>>
             ELSE /\ input_sink' = r.input_sink
                  /\ output_sink' = r.output_sink
                  /\ IF plugin_exists
                     THEN /\ pc' = "enable_cmd"
                          /\ step' = 1
                          /\ UNCHANGED <<exc, error>>
                     ELSE \* sys.exit(1)
                          /\ pc' = "raise"
                          /\ exc' = "SystemExit"
                          /\ error' = "MissingBinaryError"
                          /\ UNCHANGED step
    /\ UNCHANGED <<argvars, fsvars, loaded, caller, installvars, exit_status,
                   histvars, sinkvars>>

\* one iteration of enable_rnnoise's loop, and the return to the dispatch
EnableCmd ==
    /\ pc = "enable_cmd"
    /\ \E rc \in ReturnCodes :
          LET cmd == EnableCommands(input_sink)[step] IN
          /\ log' = Append(log, Entry("enable_rnnoise", cmd, rc))
          /\ loaded' = ServerApply(loaded, cmd, rc)
          /\ IF Raises(EnableCheck, rc)
             THEN /\ pc' = "raise"
                  /\ exc' = "CalledProcessError"
                  /\ error' = "CalledProcessError"
                  /\ UNCHANGED <<step, exit_status>>
             ELSE IF step < Len(EnableCommands(input_sink))
             THEN /\ step' = step + 1
                  /\ UNCHANGED <<pc, exc, error, exit_status>>
             ELSE IF monitor = TRUE
             THEN /\ pc' = "monitor"
                  /\ UNCHANGED <<step, exc, error, exit_status>>
             ELSE /\ Exit(0)
                  /\ UNCHANGED <<step, exc, error>>
    /\ UNCHANGED <<argvars, fsvars, caller, enablevars, installvars, histvars,
                   sinkvars>>

EnableMonitoring ==
    /\ pc = "monitor"
    /\ \E r \in SinkResults, rc \in ReturnCodes :
          LET queried == Append(log, Entry("get_default_sinks", StatCommand, 0))
              cmd == MonitorCommand(r.output_sink)
          IN
          IF r.raised
          THEN /\ log' = queried
               /\ pc' = "raise"
               /\ exc' = "UnboundLocalError"
               /\ error' = "UnboundLocalError"
               /\ UNCHANGED <<loaded, output_sink, exit_status>>
          ELSE /\ log' = Append(queried, Entry("enable_monitoring", cmd, rc))
               /\ output_sink' = r.output_sink
               /\ loaded' = ServerApply(loaded, cmd, rc)
               /\ IF Raises(MonitorCheck, rc)
                  THEN /\ pc' = "raise"
                       /\ exc' = "CalledProcessError"
                       /\ error' = "CalledProcessError"
                       /\ UNCHANGED exit_status
                  ELSE /\ Exit(0)
                       /\ UNCHANGED <<exc, error>>
    /\ UNCHANGED <<argvars, fsvars, step, caller, input_sink, installvars,
                   histvars, sinkvars>>

\* the try statement around enable: `except Exception` or propagation
EnableExcept ==
    /\ pc = "raise"
    /\ IF Catches(exc)
       THEN /\ pc' = "disable_cmd"
            /\ caller' = "except"
            /\ step' = 1
            /\ UNCHANGED exit_status
       ELSE /\ Exit(1)
            /\ UNCHANGED <<caller, step>>
    /\ UNCHANGED <<argvars, fsvars, loaded, log, exc, enablevars, installvars,
                   error, histvars, sinkvars>>

\* traceback.print_exc() and the end of the script
PrintExc ==
    /\ pc = "print_exc"
    /\ log' = Append(log, Entry("except", PrintExcCall, 0))
    /\ Exit(0)
    /\ UNCHANGED <<argvars, fsvars, loaded, step, caller, exc, enablevars,
                   installvars, error, histvars, sinkvars>>

Next ==
    \/ Start
    \/ InstallDelete
    \/ InstallResolve
    \/ InstallDownload
    \/ InstallExtract
    \/ Uninstall
    \/ UninstallRmtree
    \/ Disable
    \/ DisableCmd
    \/ EnableBegin
    \/ EnableCmd
    \/ EnableMonitoring
    \/ EnableExcept
    \/ PrintExc

Spec == Init /\ [][Next]_vars

(***************************************************************************)
(* get_default_sinks on its own: every status output, one call             *)
(***************************************************************************)
InitSinks ==
    /\ pc = "stat"
    /\ action = "none"
    /\ monitor = FALSE
    /\ dir_exists = FALSE
    /\ plugin_exists = FALSE
    /\ loaded = [m \in ModuleTypes |-> 0]
    /\ log = <<>>
    /\ step = 0
    /\ caller = "none"
    /\ exc = "none"
    /\ input_sink = <<>>
    /\ output_sink = <<>>
    /\ latest_release_json = <<>>
    /\ download_url = Unbound
    /\ exit_status = -1
    /\ error = "none"
    /\ start = [dir_exists |-> FALSE, plugin_exists |-> FALSE, loaded |-> loaded]
    /\ prev = NoRun
    /\ runs = 0
    /\ stat_lines \in StatOutputs
    /\ pacmd_stat = join(stat_lines)
    /\ sinks = NoSinks

\* subprocess.run([PACMD, "stat"], capture_output=True) printed pacmd_stat
QuerySinks ==
    /\ pc = "stat"
    /\ sinks' = get_default_sinks(pacmd_stat)
    /\ pc' = "returned"
    /\ UNCHANGED <<argvars, fsvars, loaded, log, step, caller, exc, enablevars,
                   installvars, exit_status, error, histvars, pacmd_stat,
                   stat_lines>>

NextSinks == QuerySinks

SpecSinks == InitSinks /\ [][NextSinks]_vars

(***************************************************************************)
(* Properties of get_default_sinks (checked under SpecSinks)               *)
(***************************************************************************)
\* the lines of the status output that carry prefix p
Carrying(p) ==
    {i \in 1..Len(stat_lines) :
        Len(stat_lines[i]) >= Len(p) /\ SubSeq(stat_lines[i], 1, Len(p)) = p}

\* what follows prefix p on line i
NameOn(i, p) == SubSeq(stat_lines[i], Len(p) + 1, Len(stat_lines[i]))

FirstOf(S) == CHOOSE i \in S : \A j \in S : i <= j
LastOf(S) == CHOOSE i \in S : \A j \in S : j <= i

HasSep(s) == \E i \in 1..(Len(s) - 1) : s[i] = ":" /\ s[i + 1] = " "

\* s up to its first ": ", all of s when it has none
UpToSep(s) ==
    LET k == CHOOSE n \in 0..Len(s) :
                 /\ ~HasSep(SubSeq(s, 1, n))
                 /\ n = Len(s) \/ (n + 2 <= Len(s) /\ s[n + 1] = ":" /\ s[n + 2] = " ")
    IN SubSeq(s, 1, k)

BothCarried == Carrying(SourcePrefix) # {} /\ Carrying(SinkPrefix) # {}

\* C8 as stated: when the status output has a "Default source name: " line and
\* a "Default sink name: " line, get_default_sinks returns for each prefix the
\* name on the FIRST line carrying it, verbatim.
C8_FirstMatchVerbatim ==
    (pc = "returned" /\ BothCarried) =>
        /\ ~sinks.raised
        /\ sinks.input_sink = NameOn(FirstOf(Carrying(SourcePrefix)), SourcePrefix)
        /\ sinks.output_sink = NameOn(FirstOf(Carrying(SinkPrefix)), SinkPrefix)

\* C8 amended: when the status output has a line of each prefix,
\* get_default_sinks returns without raising and gives for each prefix the
\* name on the LAST line carrying it, cut at the first ": " inside the name.
C8_LastMatchUpToSep ==
    (pc = "returned" /\ BothCarried) =>
        /\ ~sinks.raised
        /\ sinks.input_sink =
               UpToSep(NameOn(LastOf(Carrying(SourcePrefix)), SourcePrefix))
        /\ sinks.output_sink =
               UpToSep(NameOn(LastOf(Carrying(SinkPrefix)), SinkPrefix))

\* two source lines with different names and a sink name holding ": " were parsed
C8_Witness ==
    /\ pc = "returned"
    /\ BothCarried
    /\ ~sinks.raised
    /\ \E i, j \in Carrying(SourcePrefix) :
          i < j /\ NameOn(i, SourcePrefix) # NameOn(j, SourcePrefix)
    /\ HasSep(NameOn(LastOf(Carrying(SinkPrefix)), SinkPrefix))

(***************************************************************************)
(* Properties of the four actions (checked under Spec)                     *)
(***************************************************************************)
Range(f) == {f[i] : i \in DOMAIN f}

IsMonitorEntry(e) ==
    e.cmd.verb = "load-module" /\ "latency_msec=1" \in Range(e.cmd.args)

\* a command of enable's strict sequence
IsStrictEntry(e) ==
    /\ e.cmd.tool = "/usr/bin/pacmd"
    /\ e.cmd.verb \in {"load-module", "set-default-source"}
    /\ ~IsMonitorEntry(e)

IsUnloadEntry(e) == e.cmd.verb = "unload-module"

StrictIssued == SelectSeq(log, IsStrictEntry)
UnloadsIssued == SelectSeq(log, IsUnloadEntry)

StrictOrder == << <<"load-module", "module-null-sink">>,
                  <<"load-module", "module-ladspa-sink">>,
                  <<"load-module", "module-loopback">>,
                  <<"load-module", "module-remap-source">>,
                  <<"set-default-source", "denoised">> >>

UnloadOrder == <<"module-loopback", "module-null-sink", "module-ladspa-sink",
                 "module-remap-source">>

\* s is the four unload commands, one per module type
FourUnloads(s) ==
    /\ Len(s) = 4
    /\ \A i \in 1..4 :
          /\ s[i].cmd.tool = "/usr/bin/pactl"
          /\ s[i].cmd.verb = "unload-module"
          /\ s[i].cmd.name = UnloadOrder[i]
    /\ {s[i].cmd.name : i \in 1..4} = ModuleTypes

\* the position in log of the strict command that failed, 0 when none did
FailedAt ==
    IF \E i \in 1..Len(log) : IsStrictEntry(log[i]) /\ log[i].rc # 0
    THEN CHOOSE i \in 1..Len(log) : IsStrictEntry(log[i]) /\ log[i].rc # 0
    ELSE 0

After(i) == SubSeq(log, i + 1, Len(log))

\* s is the rollback: the four unloads, then the diagnostic trace
RollbackThenTrace(s) ==
    /\ Len(s) = 5
    /\ FourUnloads(SubSeq(s, 1, 4))
    /\ s[5].cmd.tool = "traceback"
    /\ s[5].cmd.verb = "print_exc"

\* C1: the strict commands an enable run has issued are always a prefix of
\* null-sink, ladspa-sink, loopback, remap-source, set-default-source, and
\* every one but the last issued has returned 0.
C1_EnableOrderPrefix ==
    LET s == StrictIssued IN
    /\ Len(s) <= Len(StrictOrder)
    /\ \A i \in 1..Len(s) :
          /\ <<s[i].cmd.verb, s[i].cmd.name>> = StrictOrder[i]
          /\ i < Len(s) => s[i].rc = 0
    /\ Len(s) > 0 => action = "enable"

\* an enable run issued all five, each returning 0
C1_Witness ==
    /\ action = "enable"
    /\ pc = "done"
    /\ Len(StrictIssued) = 5
    /\ \A i \in 1..5 : StrictIssued[i].rc = 0

\* C2: once a strict command of enable has returned nonzero, no further
\* strict or monitor command is issued, and when the run has ended what
\* followed the failed command is the four unloads and then the trace.
C2_FailureRollsBack ==
    LET f == FailedAt IN
    (action = "enable" /\ f # 0) =>
        /\ \A i \in (f + 1)..Len(log) :
              ~IsStrictEntry(log[i]) /\ ~IsMonitorEntry(log[i])
        /\ pc = "done" => RollbackThenTrace(After(f))
        /\ pc # "done" => \A i \in (f + 1)..Len(log) : IsUnloadEntry(log[i])

\* the loopback creation (third command) failed and the run has ended
C2_Witness ==
    /\ action = "enable"
    /\ pc = "done"
    /\ FailedAt # 0
    /\ log[FailedAt].cmd.name = "module-loopback"
    /\ Len(StrictIssued) = 3

\* C3: a finished run that entered the disable sequence (disable, uninstall
\* of an existing directory, rollback of enable) issued exactly the four
\* unloads, one per module type; no run issues more; disable exits 0.
C3_DisableIssuesFour ==
    /\ LET u == UnloadsIssued IN
       /\ Len(u) <= 4
       /\ (pc = "done" /\ caller # "none") => FourUnloads(u)
    /\ (pc = "done" /\ action = "disable") =>
          caller = "disable" /\ exit_status = 0 /\ error = "none"
    /\ (pc = "done" /\ action = "uninstall" /\ start.dir_exists) =>
          caller = "uninstall"
    /\ (pc = "done" /\ action = "enable"
          /\ error \in {"CalledProcessError", "UnboundLocalError"}) =>
          caller = "except"

\* a disable run with modules loaded ended after unloads that failed and
\* unloads that succeeded
C3_Witness ==
    /\ pc = "done"
    /\ action = "disable"
    /\ \E m \in ModuleTypes : start.loaded[m] > 0
    /\ \E i, j \in 1..Len(log) : log[i].rc # 0 /\ log[j].rc = 0

\* C4: an uninstall that starts with the directory issues the four unloads,
\* deletes the directory and exits 0; an uninstall that follows it finds no
\* directory, makes no call, changes nothing and exits 1 (not installed),
\* and the first of the two did not end in that error.
C4_UninstallTwice ==
    /\ (pc = "done" /\ action = "uninstall" /\ start.dir_exists) =>
          /\ exit_status = 0
          /\ error = "none"
          /\ ~dir_exists /\ ~plugin_exists
          /\ Len(log) = 5
          /\ FourUnloads(SubSeq(log, 1, 4))
          /\ log[5].cmd.verb = "rmtree"
    /\ (pc = "done" /\ action = "uninstall" /\ prev.action = "uninstall"
          /\ prev.dir_at_start) =>
          /\ prev.exit_status = 0
          /\ prev.error # "NotInstalledError"
          /\ ~start.dir_exists
          /\ log = <<>>
          /\ Snapshot = start
          /\ exit_status = 1
          /\ error = "NotInstalledError"

\* the second of two uninstalls in a row, the first from an installed directory
C4_Witness ==
    /\ pc = "done"
    /\ action = "uninstall"
    /\ prev.action = "uninstall"
    /\ prev.dir_at_start
    /\ exit_status = 1

\* C5 as stated: an enable run that finds no plugin binary ends with a
\* nonzero exit status, whatever the status query printed.
C5_MissingBinaryExitsNonzero ==
    (pc = "done" /\ action = "enable" /\ ~start.plugin_exists) =>
        exit_status # 0

\* the assets of the listing whose name starts with "linux"
Matching ==
    {i \in 1..Len(latest_release_json) :
        LET n == latest_release_json[i].name IN
        Len(n) >= 5 /\ SubSeq(n, 1, 5) = <<"l", "i", "n", "u", "x">>}

\* the release listing has been received and searched
Resolved ==
    /\ action = "install"
    /\ \/ pc \in {"install_download", "install_extract"}
       \/ pc = "done" /\ error # "RequestError"

Downloads == SelectSeq(log, LAMBDA e : e.cmd.tool = "download")
Extractions == SelectSeq(log, LAMBDA e : e.cmd.tool = "tarfile")

\* C6: once install has searched the listing: if some asset name starts with
\* "linux", download_url is one URL, that of a matching asset (the last one
\* in the listing), and the only download made is of that URL; if none
\* does, install has exited 1 and nothing was downloaded or extracted.
C6_ResolveByPrefix ==
    Resolved =>
        LET d == Downloads IN
        IF Matching # {}
        THEN /\ download_url.bound
             /\ download_url.val =
                    latest_release_json[LastOf(Matching)].browser_download_url
             /\ error # "ResolutionError"
             /\ Len(d) <= 1
             /\ \A i \in 1..Len(d) : d[i].cmd.dyn = download_url.val
             /\ pc \in {"install_extract", "done"} => Len(d) = 1
        ELSE /\ ~download_url.bound
             /\ pc = "done"
             /\ exit_status = 1
             /\ error = "ResolutionError"
             /\ d = <<>>
             /\ Extractions = <<>>
             /\ ~dir_exists

\* a listing with a matching and a non-matching asset was searched and the
\* matching asset downloaded
C6_Witness ==
    /\ Resolved
    /\ pc = "install_extract"
    /\ Matching # {}
    /\ Matching # 1..Len(latest_release_json)
    /\ Len(Downloads) = 1

\* C7: an enable run that ended after a strict command returned nonzero or
\* after a sink query left a name unset (in enable_rnnoise or in
\* enable_monitoring) ran the four unloads, then printed the trace, and
\* exited 0.
C7_EnableFailureSwallowed ==
    (pc = "done" /\ action = "enable"
        /\ (FailedAt # 0 \/ error = "UnboundLocalError")) =>
        /\ exit_status = 0
        /\ Len(log) >= 5
        /\ RollbackThenTrace(SubSeq(log, Len(log) - 4, Len(log)))

\* the monitor step's sink query left a name unset after five successes
C7_Witness ==
    /\ pc = "done"
    /\ action = "enable"
    /\ error = "UnboundLocalError"
    /\ Len(StrictIssued) = 5
    /\ exit_status = 0

MonitorIssued == SelectSeq(log, IsMonitorEntry)

\* C9: a monitor loopback command is issued only with the monitor flag set
\* and after five strict commands that all returned 0, at most once, towards
\* the output sink just queried; when it returned nonzero the run issued no
\* unload, kept the four modules of the strict steps loaded and exited 0.
C9_MonitorBestEffort ==
    LET m == MonitorIssued IN
    /\ Len(m) <= 1
    /\ Len(m) = 1 =>
          LET i == CHOOSE k \in 1..Len(log) : IsMonitorEntry(log[k])
              before == SelectSeq(SubSeq(log, 1, i - 1), IsStrictEntry)
          IN
          /\ action = "enable" /\ monitor
          /\ m[1].cmd.dyn = output_sink
          /\ Len(before) = 5
          /\ \A k \in 1..5 : before[k].rc = 0
          /\ Len(StrictIssued) = 5
    /\ (pc = "done" /\ Len(m) = 1 /\ m[1].rc # 0) =>
          /\ UnloadsIssued = <<>>
          /\ exit_status = 0
          /\ loaded = [t \in ModuleTypes |-> start.loaded[t] + 1]

\* the monitor loopback was issued and returned nonzero
C9_Witness ==
    /\ pc = "done"
    /\ Len(MonitorIssued) = 1
    /\ MonitorIssued[1].rc # 0

\* C10 as stated, the failed install and the enable after it: an install that
\* starts with the directory and fails asset resolution exits 1 with the
\* directory absent, and an enable that follows it fails on the missing
\* plugin binary.
C10_InstallDoesNotPreserve ==
    /\ (pc = "done" /\ action = "install" /\ start.dir_exists
          /\ error = "ResolutionError") =>
          exit_status = 1 /\ ~dir_exists
    /\ (pc = "done" /\ action = "enable" /\ prev.action = "install"
          /\ prev.dir_at_start /\ prev.error = "ResolutionError") =>
          exit_status = 1 /\ error = "MissingBinaryError"

\* C10 as stated, its last sentence: the directory exists after an install
\* only when resolution, download and extraction all succeeded.
C10_DirectoryOnlyAfterSuccess ==
    (pc = "done" /\ action = "install" /\ dir_exists) =>
        exit_status = 0 /\ error = "none"

====
